---- MODULE Spec2Model ----
(***************************************************************************)
(* EduBot (edtech-bot): the retrieval, reranking, confidence-gate and      *)
(* prompt-assembly pipeline of src/components and the chat handler of      *)
(* src/app.py.                                                             *)
(*                                                                         *)
(* Similarity scores are cosine similarities; the model carries them in    *)
(* hundredths (0.20 is 20), which keeps every comparison of the code       *)
(* (> 0.20, < CONFIDENCE_THRESHOLD, sort by score) exact.                  *)
(***************************************************************************)
EXTENDS Integers, Sequences, FiniteSets, TLC

\* ------------------------------------------------------------------ bounds
MaxN == 7
MaxK == 3
MaxChunks == 3
MaxTurns == 14
MaxPromptChunks == 4
MaxHistory == 4
MaxTime == 62

\* ------------------------------------------------------- program constants
\* retriever.py:90  pool_size = min(top_k * 6, len(self.articles))
PoolFactor == 6
\* retriever.py:117-118  c.score > 0.20
PreferenceFloor == 20
\* prompts.py:60  CONFIDENCE_THRESHOLD = 0.20
CONFIDENCE_THRESHOLD == 20
\* prompts.py:113  chat_history[-6:] if len(chat_history) > 6
WindowSize == 6
\* app.py:88-89
RATE_LIMIT == 10
RATE_WINDOW == 60

\* retriever.py:108
valid_categories == {"course", "assessment", "certification", "progress"}

\* The categories the corpora of the model use, the scores a query can give
\* an article (below, at and above 0.20), and the category hints a caller
\* passes: None, an intent that is no category, a category the corpus has,
\* a valid category the corpus has not.
Categories == {"course", "assessment"}
Scores == {10, 20, 30, 40}
None == "None"
Hints == {None, "general", "course", "progress"}

VARIABLES
    articles,         \* KBRetriever.articles: the category of each article
    scores,           \* the similarity of the query to each article
    category_filter,  \* retrieve's category_filter
    top_k,            \* retrieve's top_k
    requested,        \* the k handed to index.search
    results,          \* the chunks retrieve returned
    ask,              \* <<b>> once should_ask_clarification returned b
    phase,            \* of a single call: "idle" before it, "done" after it
    chat_history,     \* st.session_state.chat_history: turns {role, content}
    query,            \* the text of the query being handled
    messages,         \* what build_prompt returned
    display_messages, \* st.session_state.display_messages
    request_count,    \* st.session_state.request_count
    last_reset,       \* st.session_state.last_reset, in seconds
    now,              \* time.time(), in seconds
    gemini_ready,     \* st.session_state.gemini_ready
    calls,            \* the calls the last run of the script made, in order
    raised,           \* the exception that ended the last run, or None
    retriever_instance, \* retriever.py's global _retriever_instance
    pc,               \* where each session's thread is in get_retriever
    built,            \* the KBRetriever each thread constructed, or None
    returned,         \* what get_retriever returned to each thread, or None
    session_retriever, \* each session's st.session_state.retriever
    builds,           \* how many times KBRetriever() has built the index
    retry,            \* call_gemini's retry
    attempt,          \* call_gemini's loop variable
    slept,            \* the seconds of each time.sleep of call_gemini
    tries,            \* how many iterations of call_gemini's loop have run
    caught,           \* the exceptions call_gemini's except clause caught
    call_state,       \* of call_gemini: "running", "returned" or "raised"
    value             \* what call_gemini returned or raised

vars == <<articles, scores, category_filter, top_k, requested, results, ask,
          phase, chat_history, query, messages, display_messages,
          request_count, last_reset, now, gemini_ready, calls, raised,
          retriever_instance, pc, built, returned, session_retriever, builds,
          retry, attempt, slept, tries, caught, call_state, value>>

singletonVars == <<retriever_instance, pc, built, returned, session_retriever,
                   builds>>
geminiVars == <<retry, attempt, slept, tries, caught, call_state, value>>

\* The variables a specification does not use keep these values.
NoRetrieval ==
    /\ articles = <<>>
    /\ scores = <<>>
    /\ category_filter = None
    /\ top_k = 0
    /\ requested = 0
NoPrompt ==
    /\ chat_history = <<>>
    /\ query = 0
    /\ messages = <<>>
NoSingleton ==
    /\ retriever_instance = 0
    /\ pc = <<>>
    /\ built = <<>>
    /\ returned = <<>>
    /\ session_retriever = <<>>
    /\ builds = 0
NoGemini ==
    /\ retry = 0
    /\ attempt = 0
    /\ slept = <<>>
    /\ tries = 0
    /\ caught = <<>>
    /\ call_state = "idle"
    /\ value = [kind |-> "none"]
NoSession ==
    /\ display_messages = <<>>
    /\ request_count = 0
    /\ last_reset = 0
    /\ now = 0
    /\ gemini_ready = FALSE
    /\ calls = <<>>
    /\ raised = None
retrievalVars == <<articles, scores, category_filter, top_k, requested>>
sessionVars == <<display_messages, request_count, last_reset, now, gemini_ready,
                 calls, raised>>
promptVars == <<chat_history, query, messages>>

\* ----------------------------------------------------------------- helpers
Min(a, b) == IF a <= b THEN a ELSE b
Max(a, b) == IF a >= b THEN a ELSE b

\* Python's s[:n] for n >= 0
Take(s, n) == SubSeq(s, 1, Min(n, Len(s)))

\* Python's s[-n:] for n >= 1
LastN(s, n) == SubSeq(s, Max(1, Len(s) - n + 1), Len(s))

NonIncreasing(s) == \A i \in 1..(Len(s) - 1) : s[i] >= s[i + 1]

\* ------------------------------------------------------------ KBRetriever
\* retriever.py:90
pool_size_factor4(k, n) == Min(k * 4, n)
pool_size(k, n) == Min(k * PoolFactor, n)

\* retriever.py:91-105: index.search returns the pool_size nearest articles,
\* best first; each becomes a RetrievedChunk.  The corpus is listed in the
\* order faiss ranks it for the query, so the n nearest are the first n.
\* (idx < 0 only pads a search for more than the index holds, and
\* pool_size <= len(articles).)
all_candidates(arts, sc, n) ==
    [i \in 1..n |-> [id |-> i, category |-> arts[i], score |-> sc[i]]]

\* retriever.py:112-113
preferred(cands, hint) == SelectSeq(cands, LAMBDA c : c.category = hint)
others(cands, hint) == SelectSeq(cands, LAMBDA c : c.category # hint)

\* retriever.py:117-118
high(cs) == SelectSeq(cs, LAMBDA c : c.score > PreferenceFloor)

\* retriever.py:136: sorted(results, key=score, reverse=True), which is stable
RECURSIVE InsertByScore(_, _)
InsertByScore(s, x) ==
    IF s = <<>> THEN <<x>>
    ELSE IF Head(s).score >= x.score
         THEN <<Head(s)>> \o InsertByScore(Tail(s), x)
         ELSE <<x>> \o s

RECURSIVE SortFrom(_, _, _)
SortFrom(s, i, acc) ==
    IF i > Len(s) THEN acc ELSE SortFrom(s, i + 1, InsertByScore(acc, s[i]))

sorted_unsorted(s) == s
sorted_by_score(s) == SortFrom(s, 1, <<>>)

\* retriever.py:107-133: the soft category preference
rerank_fallback_high(cands, hint, k) ==
    IF hint # None /\ hint \in valid_categories
    THEN LET preferred_high == high(preferred(cands, hint))
             others_high == high(others(cands, hint))
         IN  IF Len(preferred_high) >= k THEN Take(preferred_high, k)
             ELSE IF Len(preferred_high) > 0
                  THEN preferred_high \o Take(others_high, k - Len(preferred_high))
                  ELSE Take(others_high, k)
    ELSE Take(cands, k)

rerank_last_k(cands, hint, k) ==
    IF hint # None /\ hint \in valid_categories
    THEN LET preferred_high == high(preferred(cands, hint))
             others_high == high(others(cands, hint))
         IN  IF Len(preferred_high) >= k THEN LastN(preferred_high, k)
             ELSE IF Len(preferred_high) > 0
                  THEN preferred_high \o Take(others_high, k - Len(preferred_high))
                  ELSE Take(cands, k)
    ELSE Take(cands, k)

rerank(cands, hint, k) ==
    IF hint # None /\ hint \in valid_categories
    THEN LET preferred_high == high(preferred(cands, hint))
             others_high == high(others(cands, hint))
         IN  IF Len(preferred_high) >= k THEN Take(preferred_high, k)
             ELSE IF Len(preferred_high) > 0
                  THEN preferred_high \o Take(others_high, k - Len(preferred_high))
                  ELSE Take(cands, k)
    ELSE Take(cands, k)

\* retriever.py:67-139
retrieve(arts, sc, hint, k) ==
    LET cands == all_candidates(arts, sc, pool_size(k, Len(arts)))
    IN  Take(sorted_by_score(rerank(cands, hint, k)), k)

\* ----------------------------------------------------------------- prompts
\* prompts.py:135-140
should_ask_clarification_at_threshold(chunks) ==
    IF chunks = <<>> THEN TRUE ELSE chunks[1].score <= CONFIDENCE_THRESHOLD
should_ask_clarification(chunks) ==
    IF chunks = <<>> THEN TRUE ELSE chunks[1].score < CONFIDENCE_THRESHOLD

\* prompts.py:89: chunk.category.upper()
upper(category) ==
    CASE category = "course" -> "COURSE"
      [] category = "assessment" -> "ASSESSMENT"
      [] category = "certification" -> "CERTIFICATION"
      [] category = "progress" -> "PROGRESS"
      [] OTHER -> category

\* prompts.py:89: {chunk.score:.3f}, the score in thousandths
format_3f(score) == score * 10

\* the sections numbered as enumerate numbers them without its start argument
context_text_from_zero(retrieved_chunks) ==
    IF retrieved_chunks # <<>>
    THEN [i \in 1..Len(retrieved_chunks) |->
            [chunk |-> i - 1,
             category |-> upper(retrieved_chunks[i].category),
             title |-> retrieved_chunks[i].id,
             relevance |-> format_3f(retrieved_chunks[i].score),
             content |-> retrieved_chunks[i].id]]
    ELSE "No specific context found in knowledge base."

\* prompts.py:84-96: one section per chunk, numbered from 1; the chunk's id
\* stands for its title and content
context_text(retrieved_chunks) ==
    IF retrieved_chunks # <<>>
    THEN [i \in 1..Len(retrieved_chunks) |->
            [chunk |-> i,
             category |-> upper(retrieved_chunks[i].category),
             title |-> retrieved_chunks[i].id,
             relevance |-> format_3f(retrieved_chunks[i].score),
             content |-> retrieved_chunks[i].id]]
    ELSE "No specific context found in knowledge base."

\* prompts.py:93,96
chunk_count(retrieved_chunks) == Len(retrieved_chunks)

\* prompts.py:98-110: the header with the chunk count, the context, the
\* question, the instruction block (which names the chunk count)
augmented_user_message(user_query, retrieved_chunks) ==
    [header |-> [chunks_retrieved |-> chunk_count(retrieved_chunks)],
     context |-> context_text(retrieved_chunks),
     user_question |-> user_query,
     instructions |-> [synthesize_all |-> chunk_count(retrieved_chunks)]]

\* prompts.py:113
recent_history(history) ==
    IF Len(history) > WindowSize THEN LastN(history, WindowSize) ELSE history

\* the history roles handed on as they are
gemini_role_unmapped(role) == role
\* prompts.py:116-124
gemini_role(role) == IF role = "assistant" THEN "model" ELSE role

\* prompts.py:73-132
build_prompt(user_query, retrieved_chunks, history, intent) ==
    LET recent == recent_history(history)
    IN  [i \in 1..Len(recent) |->
            [role |-> gemini_role(recent[i].role), parts |-> <<recent[i].content>>]]
        \o <<[role |-> "user",
              parts |-> <<augmented_user_message(user_query, retrieved_chunks)>>]>>

\* ------------------------------------------------- specification: retrieve
\* The corpora: 1..MaxN articles (an empty corpus fails at index build,
\* retriever.py:62), and a query's scores, ranked as faiss returns them.
RECURSIVE RankingsBelow(_, _)
RankingsBelow(n, top) ==
    IF n = 0 THEN {<<>>}
    ELSE UNION {{<<s>> \o r : r \in RankingsBelow(n - 1, s)} :
                    s \in {x \in Scores : x <= top}}
Rankings(n) == RankingsBelow(n, 100)

InitRetrieve ==
    /\ NoSingleton
    /\ NoGemini
    /\ articles \in UNION {[1..n -> Categories] : n \in 1..MaxN}
    /\ scores = <<>>
    /\ category_filter = None
    /\ top_k = 0
    /\ requested = 0
    /\ results = <<>>
    /\ ask = <<>>
    /\ phase = "idle"
    /\ NoPrompt
    /\ NoSession

\* One call of KBRetriever.retrieve(query, category_filter, top_k)
Retrieve ==
    /\ phase = "idle"
    /\ \E sc \in Rankings(Len(articles)), hint \in Hints, k \in 1..MaxK :
          /\ scores' = sc
          /\ category_filter' = hint
          /\ top_k' = k
          /\ requested' = pool_size(k, Len(articles))
          /\ results' = retrieve(articles, sc, hint, k)
    /\ phase' = "done"
    /\ UNCHANGED <<singletonVars, geminiVars>>
    /\ UNCHANGED <<articles, ask, promptVars, sessionVars>>

NextRetrieve == Retrieve

SpecRetrieve == InitRetrieve /\ [][NextRetrieve]_vars

\* ----------------------------------------- specification: confidence gate
\* should_ask_clarification on every ranked chunk list (score descending, as
\* retrieve returns them) of up to MaxChunks chunks, the empty list included.
RankedChunks ==
    UNION {{[i \in 1..n |-> [id |-> i, category |-> cat[i], score |-> sc[i]]] :
                cat \in [1..n -> Categories], sc \in Rankings(n)} :
           n \in 0..MaxChunks}

InitGate ==
    /\ NoSingleton
    /\ NoGemini
    /\ NoRetrieval
    /\ NoPrompt
    /\ NoSession
    /\ results \in RankedChunks
    /\ ask = <<>>
    /\ phase = "idle"

Gate ==
    /\ phase = "idle"
    /\ ask' = <<should_ask_clarification(results)>>
    /\ phase' = "done"
    /\ UNCHANGED <<singletonVars, geminiVars>>
    /\ UNCHANGED <<retrievalVars, results, promptVars, sessionVars>>

NextGate == Gate

SpecGate == InitGate /\ [][NextGate]_vars

\* ------------------------------------------- specification: build_prompt
\* build_prompt on the arguments the chat handler holds when it reaches
\* app.py:301: the session's chat_history with the current user turn already
\* appended (app.py:243), the query, the retrieved chunks and the intent.
\* Turn i of the history carries the text i, so every turn's text is its own.
\* An assistant turn is only ever appended after a user turn (app.py:266,
\* 290, 339, 353).
PromptChunks ==
    UNION {{[i \in 1..n |->
                [id |-> i,
                 category |-> IF i % 2 = 1 THEN "course" ELSE "assessment",
                 score |-> sc[i]]] : sc \in Rankings(n)} :
           n \in 0..MaxPromptChunks}

InitPrompt ==
    /\ NoSingleton
    /\ NoGemini
    /\ NoRetrieval
    /\ NoPrompt
    /\ NoSession
    /\ results = <<>>
    /\ ask = <<>>
    /\ phase = "idle"

\* an earlier turn of the conversation
PriorTurn ==
    /\ phase = "idle"
    /\ Len(chat_history) < MaxTurns - 1
    /\ \E role \in {"user", "assistant"} :
          /\ role = "assistant" =>
                (chat_history # <<>> /\ chat_history[Len(chat_history)].role = "user")
          /\ chat_history' =
                Append(chat_history, [role |-> role, content |-> Len(chat_history) + 1])
    /\ UNCHANGED <<singletonVars, geminiVars>>
    /\ UNCHANGED <<retrievalVars, results, ask, phase, query, messages,
                   sessionVars>>

\* app.py:230-243: the query is appended to the history as a user turn
Ask ==
    /\ phase = "idle"
    /\ Len(chat_history) < MaxTurns
    /\ query' = Len(chat_history) + 1
    /\ chat_history' = Append(chat_history, [role |-> "user", content |-> query'])
    /\ phase' = "asked"
    /\ UNCHANGED <<singletonVars, geminiVars>>
    /\ UNCHANGED <<retrievalVars, results, ask, messages, sessionVars>>

\* app.py:301-305, prompts.py:73-132
BuildPrompt ==
    /\ phase = "asked"
    /\ \E chunks \in PromptChunks, intent \in Hints \ {None} :
          /\ results' = chunks
          /\ category_filter' = intent
          /\ messages' = build_prompt(query, chunks, chat_history, intent)
    /\ phase' = "done"
    /\ UNCHANGED <<singletonVars, geminiVars>>
    /\ UNCHANGED <<articles, scores, top_k, requested, ask, chat_history, query,
                   sessionVars>>

NextPrompt == PriorTurn \/ Ask \/ BuildPrompt

SpecPrompt == InitPrompt /\ [][NextPrompt]_vars

\* ------------------------------------------------------------------ safety
\* The text of a query is carried by what the program reads off it: whether
\* a blocked pattern matches it (safety.py:9-20), the keyword class it falls
\* in (safety.py:43-52) and its similarity to each article of the corpus.
Topics == {"general", "course", "progress"}

\* safety.py:55-61
is_blocked(q) == q.blocked

\* safety.py:33-52
classify_intent(q) == IF is_blocked(q) THEN "blocked" ELSE q.topic

\* --------------------------------------------------------------------- app
\* the limit compared with > in place of >=
check_rate_limit_one_more(t, count, reset) ==
    LET expired == t - reset > RATE_WINDOW
        count1 == IF expired THEN 0 ELSE count
        reset1 == IF expired THEN t ELSE reset
    IN  IF count1 > RATE_LIMIT
        THEN [allowed |-> FALSE, request_count |-> count1, last_reset |-> reset1]
        ELSE [allowed |-> TRUE, request_count |-> count1 + 1, last_reset |-> reset1]

\* app.py:100-108
check_rate_limit(t, count, reset) ==
    LET expired == t - reset > RATE_WINDOW
        count1 == IF expired THEN 0 ELSE count
        reset1 == IF expired THEN t ELSE reset
    IN  IF count1 >= RATE_LIMIT
        THEN [allowed |-> FALSE, request_count |-> count1, last_reset |-> reset1]
        ELSE [allowed |-> TRUE, request_count |-> count1 + 1, last_reset |-> reset1]

\* app.py:100-108 left at one of its st.session_state accesses: the counter
\* and the reset time as they are when the run is stopped at the read of
\* last_reset (102), at the write of request_count (103), at the write of
\* last_reset with request_count already zeroed (104), at the read of
\* request_count (105) or at its increment (107).
check_rate_limit_stopped(line, t, count, reset) ==
    LET expired == t - reset > RATE_WINDOW
    IN  IF line \in {102, 103} \/ ~expired
        THEN [request_count |-> count, last_reset |-> reset]
        ELSE IF line = 104
        THEN [request_count |-> 0, last_reset |-> reset]
        ELSE [request_count |-> 0, last_reset |-> t]

\* prompts.py:73-78: the parameters build_prompt declares
build_prompt_parameters == {"user_query", "retrieved_chunks", "chat_history", "intent"}

\* app.py:301-307: the keywords the chat handler calls build_prompt with
build_prompt_keywords ==
    {"user_query", "retrieved_chunks", "chat_history", "intent", "top_k"}

\* A Python call with a keyword the function does not declare raises
\* TypeError before the body runs.
call_binds(keywords, parameters) == keywords \subseteq parameters

\* app.py:246-292: the branch the chat handler takes
handler_path_gate_skipped(allowed, blocked, ready, clarify) ==
    IF ~allowed THEN "rate_limited"
    ELSE IF blocked THEN "blocked"
    ELSE IF ~ready THEN "not_configured"
    ELSE "generate"
handler_path(allowed, blocked, ready, clarify) ==
    IF ~allowed THEN "rate_limited"
    ELSE IF blocked THEN "blocked"
    ELSE IF ~ready THEN "not_configured"
    ELSE IF clarify THEN "clarify"
    ELSE "generate"

\* what call_gemini gives the handler (gemini.py:77-108): the model's text,
\* the leakage block message put in its place, or an exception
GeminiOutcomes == {"response", "LEAKAGE_BLOCK_RESPONSE", "error"}

user_turn == [role |-> "user", content |-> "query"]
assistant_turn(content) == [role |-> "assistant", content |-> content]
\* app.py:262-265, 286-289, 332-336, 349-352 (sources, intent and latency
\* are display data and left out)
assistant_display(content, n) ==
    [role |-> "assistant", content |-> content, chunk_count |-> n]

\* ------------------------------------------------ specification: a session
SessionCorpus == <<"course", "assessment">>
Queries ==
    [blocked : BOOLEAN, topic : Topics, sims : Rankings(Len(SessionCorpus))]
TickSteps == {30, 31}

\* app.py:68-86
Init ==
    /\ NoSingleton
    /\ NoGemini
    /\ articles = SessionCorpus
    /\ scores = <<>>
    /\ category_filter = None
    /\ top_k = 0
    /\ requested = 0
    /\ results = <<>>
    /\ ask = <<>>
    /\ phase = "idle"
    /\ NoPrompt
    /\ display_messages = <<>>
    /\ request_count = 0
    /\ now = 0
    /\ last_reset = now
    /\ gemini_ready \in BOOLEAN
    /\ calls = <<>>
    /\ raised = None

\* A rerun request (the user acting on another widget) stops a script run
\* at its next st.* call or st.session_state access; what the run wrote to
\* st.session_state before stays.  The points of the handler that separate
\* its writes and calls, by line:
\*   239  st.markdown of the user message: nothing written yet
\*   243  chat_history access: the user turn is in display_messages only
\*   102, 103, 104, 105, 107  inside check_rate_limit (see
\*        check_rate_limit_stopped); 103 and 104 are passed when the
\*        window has run out, 107 when the query is admitted
\*   256  st.markdown of the badge: both user turns written, request counted
\*   261  st.markdown of the safe response
\*   266  chat_history access: the safe response is in display_messages only
\*   267  session_id access: the safe response recorded, nothing logged
\*   281  end of the st.spinner block: retrieve called, the gate not yet
\*   285  st.markdown of the clarification
\*   290  chat_history access: the clarification is in display_messages only
\*   294  st.markdown of the retrieval info
\* The other points leave what one of these leaves: 223-238 and 242 what
\* 239 leaves; 254, 269, 274 (entry) and 276 what 256 leaves; 262 what 261
\* leaves; 286 what 285 leaves; 304 what 294 leaves; 248 and 270 what a
\* completed run leaves; the points from 311 on come after the call of
\* app.py:301.
NoStop == 0
StopPoints ==
    {NoStop, 239, 243, 102, 103, 104, 105, 107, 256, 261, 266, 267, 281, 285, 290, 294}

\* the points a run on each branch of the handler passes after its first
\* write (103 and 104 only when the window has run out; a query rejected
\* at the limit is in a window that has not)
StopsOn(path) ==
    IF path = "rate_limited" THEN {243, 102, 105}
    ELSE {243, 102, 103, 104, 105, 107} \cup
         (IF path = "not_configured" THEN {256}
          ELSE IF path = "blocked" THEN {256, 261, 266, 267}
          ELSE IF path = "clarify" THEN {256, 281, 285, 290}
          ELSE {256, 281, 294})

\* the points that come before the gate of app.py:283: a run stopped there
\* leaves a state that does not depend on what was retrieved
BeforeGate == {243, 102, 103, 104, 105, 107, 256, 261, 266, 267, 281}

\* app.py:222-353: one run of the script with a query (typed, or a quick
\* question) and the slider at k, completed or stopped at one of its st.*
\* calls or st.session_state accesses.  The runs that end before the gate
\* are told apart by what is_blocked answers alone; the others by what the
\* retriever returns for the query and k.
ChatInput ==
    /\ Len(chat_history) + 2 <= MaxHistory
    /\ Len(display_messages) + 2 <= MaxHistory
    /\ LET history1 == Append(chat_history, user_turn)
           display1 == Append(display_messages, user_turn)
           rate == check_rate_limit(now, request_count, last_reset)
           checked == <<"check_rate_limit", "is_blocked", "classify_intent">>
           gated == checked \o <<"retrieve", "should_ask_clarification">>
           counted ==
               /\ request_count' = rate.request_count
               /\ last_reset' = rate.last_reset
           reply(content, n) ==
               /\ chat_history' = Append(history1, assistant_turn(content))
               /\ display_messages' = Append(display1, assistant_display(content, n))
           no_reply ==
               /\ chat_history' = history1
               /\ display_messages' = display1
           stopped(reached) ==
               /\ no_reply
               /\ calls' = reached
               /\ raised' = None
               /\ UNCHANGED messages
       IN  \* stopped at the st.markdown of app.py:239, before the first write
           \/ /\ calls' = <<>>
              /\ raised' = None
              /\ ask' = <<>>
              /\ UNCHANGED <<chat_history, display_messages, request_count,
                             last_reset, messages>>
           \* app.py:242-281: the run ends before the gate, on a branch
           \* without retrieval or stopped on the way to the gate
           \/ \E blocked \in {is_blocked(q) : q \in Queries} :
                LET path == handler_path(rate.allowed, blocked, gemini_ready, FALSE)
                    completes == IF path = "generate" THEN {} ELSE {NoStop}
                IN  \E stop \in (StopsOn(path) \cap BeforeGate) \cup completes :
                           /\ stop \in {103, 104} => now - last_reset > RATE_WINDOW
                           /\ ask' = <<>>
                           /\ IF stop = 243
                              THEN /\ display_messages' = display1
                                   /\ calls' = <<>>
                                   /\ raised' = None
                                   /\ UNCHANGED <<chat_history, request_count,
                                                  last_reset, messages>>
                              ELSE IF stop \in {102, 103, 104, 105, 107}
                              THEN /\ stopped(<<"check_rate_limit">>)
                                   /\ request_count' = check_rate_limit_stopped(stop,
                                          now, request_count, last_reset).request_count
                                   /\ last_reset' = check_rate_limit_stopped(stop,
                                          now, request_count, last_reset).last_reset
                              ELSE /\ counted
                                   /\ IF path = "rate_limited"
                                      THEN /\ no_reply
                                           /\ calls' = <<"check_rate_limit">>
                                           /\ raised' = None
                                           /\ UNCHANGED messages
                                      ELSE IF stop = 256
                                      THEN stopped(checked)
                                      ELSE IF stop = 281
                                      THEN stopped(checked \o <<"retrieve">>)
                                      ELSE IF path = "not_configured"
                                      THEN /\ no_reply
                                           /\ calls' = checked
                                           /\ raised' = None
                                           /\ UNCHANGED messages
                                      ELSE IF stop = 261
                                      THEN stopped(checked \o <<"get_safe_response">>)
                                      ELSE IF stop = 266
                                      THEN /\ chat_history' = history1
                                           /\ display_messages' =
                                                Append(display1, assistant_display("SAFE_RESPONSE", 0))
                                           /\ calls' = checked \o <<"get_safe_response">>
                                           /\ raised' = None
                                           /\ UNCHANGED messages
                                      ELSE IF stop = 267
                                      THEN /\ reply("SAFE_RESPONSE", 0)
                                           /\ calls' = checked \o <<"get_safe_response">>
                                           /\ raised' = None
                                           /\ UNCHANGED messages
                                      ELSE /\ reply("SAFE_RESPONSE", 0)
                                           /\ calls' = checked \o <<"get_safe_response",
                                                                    "log_interaction">>
                                           /\ raised' = None
                                           /\ UNCHANGED messages
           \* app.py:242-252, 272-353: the run gets to the gate, with a query
           \* is_blocked lets through once the rate check and the key allow it
           \/ /\ handler_path(rate.allowed, FALSE, gemini_ready, FALSE) = "generate"
              \* what the handler has at the gate: each is computed once
              /\ \E at_gate \in {[intent |-> classify_intent(q),
                                  chunks |-> retrieve(articles, q.sims,
                                                      classify_intent(q), k)] :
                                    q \in {x \in Queries : ~is_blocked(x)},
                                    k \in 1..MaxK} :
                 \E clarify \in {should_ask_clarification(at_gate.chunks)} :
                 \E path \in {handler_path(rate.allowed, FALSE, gemini_ready, clarify)} :
                 \E stop \in (StopsOn(path) \ BeforeGate) \cup {NoStop} :
                    /\ counted
                    /\ ask' = <<clarify>>
                    /\ IF path = "clarify"
                       THEN IF stop = 285
                            THEN stopped(gated)
                            ELSE IF stop = 290
                            THEN /\ chat_history' = history1
                                 /\ display_messages' = Append(display1,
                                       assistant_display("LOW_CONFIDENCE_RESPONSE", 0))
                                 /\ calls' = gated
                                 /\ raised' = None
                                 /\ UNCHANGED messages
                            ELSE /\ reply("LOW_CONFIDENCE_RESPONSE", 0)
                                 /\ calls' = gated
                                 /\ raised' = None
                                 /\ UNCHANGED messages
                       ELSE IF stop = 294
                       THEN stopped(gated)
                       ELSE IF ~call_binds(build_prompt_keywords, build_prompt_parameters)
                       THEN /\ no_reply
                            /\ calls' = gated \o <<"build_prompt">>
                            /\ raised' = "TypeError"
                            /\ UNCHANGED messages
                       ELSE /\ messages' = build_prompt("query", at_gate.chunks,
                                                        history1, at_gate.intent)
                            /\ raised' = None
                            /\ \E outcome \in GeminiOutcomes :
                                  IF outcome = "error"
                                  THEN /\ reply("Error calling Gemini API", 0)
                                       /\ calls' = gated \o <<"build_prompt",
                                                              "call_gemini">>
                                  ELSE /\ reply(outcome, Len(at_gate.chunks))
                                       /\ calls' = gated \o <<"build_prompt", "call_gemini",
                                                              "log_interaction">>
    /\ UNCHANGED <<singletonVars, geminiVars>>
    /\ UNCHANGED <<retrievalVars, results, phase, query, now, gemini_ready>>

\* app.py:160-164: the button is pressed; the run empties both logs, or is
\* stopped at the st.session_state access of app.py:162 with chat_history
\* emptied and display_messages as it was
ClearChat ==
    /\ chat_history' = <<>>
    /\ \E stop \in {NoStop, 162} :
          display_messages' = IF stop = 162 THEN display_messages ELSE <<>>
    /\ calls' = <<>>
    /\ raised' = None
    /\ ask' = <<>>
    /\ UNCHANGED <<singletonVars, geminiVars>>
    /\ UNCHANGED <<retrievalVars, results, phase, query, messages, request_count,
                   last_reset, now, gemini_ready>>

\* app.py:114-125: a key init_gemini accepts is entered in the sidebar; the
\* run sets gemini_ready, or is stopped at the st.session_state access of
\* app.py:121 after init_gemini returned
SetApiKey ==
    /\ ~gemini_ready
    /\ \E stop \in {NoStop, 121} :
          gemini_ready' = (stop = NoStop)
    /\ calls' = <<"init_gemini">>
    /\ raised' = None
    /\ ask' = <<>>
    /\ UNCHANGED <<singletonVars, geminiVars>>
    /\ UNCHANGED <<retrievalVars, results, phase, promptVars, display_messages,
                   request_count, last_reset, now>>

\* time passes between two runs of the script
Tick ==
    /\ \E d \in TickSteps :
          /\ now + d <= MaxTime
          /\ now' = now + d
    /\ UNCHANGED <<singletonVars, geminiVars>>
    /\ UNCHANGED <<retrievalVars, results, ask, phase, promptVars, display_messages,
                   request_count, last_reset, gemini_ready, calls, raised>>

Next == ChatInput \/ ClearChat \/ SetApiKey \/ Tick

Spec == Init /\ [][Next]_vars

\* ------------------------------------------------------------ claims C1-C6
Done == phase = "done"
N == Len(articles)
Pool == all_candidates(articles, scores, requested)
PoolPreferred == preferred(Pool, category_filter)
PoolOthers == others(Pool, category_filter)
HintValid == category_filter # None /\ category_filter \in valid_categories
Ids(s) == {s[i].id : i \in 1..Len(s)}
ScoresOf(s) == [i \in 1..Len(s) |-> s[i].score]
\* every candidate of cs that s leaves out scores no more than any chunk of s
TopOf(s, cs) ==
    /\ Ids(s) \subseteq Ids(cs)
    /\ Cardinality(Ids(s)) = Len(s)
    /\ \A i \in 1..Len(cs) : cs[i].id \notin Ids(s) =>
          \A j \in 1..Len(s) : cs[i].score <= s[j].score

\* C1: retrieve returns exactly min(K, N) chunks for every corpus, K, query
\* and category hint.
C1_ExactCount == Done => Len(results) = Min(top_k, N)

\* C2 as stated: with a valid hint and at least K candidates of the hinted
\* category in the pool, every returned chunk has that category and the
\* result is made of the best of them (how many are returned is C1).
C2_Original ==
    (Done /\ HintValid /\ Len(PoolPreferred) >= top_k) =>
        /\ \A i \in 1..Len(results) : results[i].category = category_filter
        /\ TopOf(results, PoolPreferred)

\* C2 as amended: with a valid hint and at least K candidates of the hinted
\* category scoring above 0.20 in the pool, every returned chunk has that
\* category and the result is the K best of them.
C2_Membership ==
    (Done /\ HintValid /\ Len(high(PoolPreferred)) >= top_k) =>
        /\ \A i \in 1..Len(results) : results[i].category = category_filter
        /\ Len(results) = top_k
        /\ TopOf(results, PoolPreferred)

C2_Witness ==
    /\ Done /\ HintValid /\ top_k >= 2
    /\ Len(high(PoolPreferred)) > top_k
    /\ Len(PoolOthers) > 0 /\ PoolOthers[1].score > PoolPreferred[1].score
    /\ \A i \in 1..Len(results) : results[i].category = category_filter

\* C3: with a valid hint, P < K candidates of the hinted category and at
\* least one other candidate in the pool, the result is all P preferred
\* candidates plus the K-P best others (all others if fewer).
C3_Fill ==
    (Done /\ HintValid /\ Len(PoolPreferred) < top_k /\ Len(PoolOthers) > 0) =>
        LET P == Len(PoolPreferred)
            fill == SelectSeq(results, LAMBDA c : c.category # category_filter)
        IN  /\ Ids(PoolPreferred) \subseteq Ids(results)
            /\ Len(results) = Min(top_k, Len(Pool))
            /\ Len(fill) = Min(top_k - P, Len(PoolOthers))
            /\ TopOf(fill, PoolOthers)

\* C4: the returned sequence is sorted by score, non-increasing, whichever
\* partition each chunk came from.
C4_Sorted == Done => NonIncreasing(ScoresOf(results))

C4_Witness ==
    /\ Done /\ HintValid /\ Len(results) >= 3
    /\ results[1].category # category_filter
    /\ results[2].category = category_filter
    /\ results[3].category # category_filter
    /\ results[1].score > results[2].score
    /\ results[2].score > results[3].score

\* C5: with no hint, a hint that is no valid category, or a valid hint that
\* matches no candidate of the pool, retrieve returns the top K candidates of
\* the pool by raw score.
C5_PureSimilarity ==
    (Done /\ (~HintValid \/ Len(PoolPreferred) = 0)) =>
        results = Take(Pool, top_k)

C5_Witness ==
    /\ Done /\ category_filter = "progress" /\ top_k = 3
    /\ Len(results) = 3
    /\ results[3].score < PreferenceFloor
    /\ results[1].category # results[2].category

\* C6 as stated: the index is asked for clamp(6*K, 20, N) neighbours.
C6_Original == Done => requested = Min(Max(PoolFactor * top_k, 20), N)

\* C6 as amended: the index is asked for min(6*K, N) neighbours; there is no
\* lower bound of 20.
C6_PoolSize == Done => requested = Min(PoolFactor * top_k, N)

C6_Witness == Done /\ top_k = 1 /\ N > PoolFactor /\ requested = PoolFactor

\* ---------------------------------------------------------------- claim C7
\* C7: the gate answers true exactly when the ranked chunk list is empty or
\* its highest score is strictly below the confidence threshold; low scores
\* behind a score at or above the threshold do not matter.
C7_Gate ==
    Done => ask = <<(\/ Len(results) = 0
                     \/ \A i \in 1..Len(results) :
                           results[i].score < CONFIDENCE_THRESHOLD)>>

C7_Witness ==
    /\ Done /\ ask = <<FALSE>> /\ Len(results) >= 2
    /\ results[1].score = CONFIDENCE_THRESHOLD
    /\ \A i \in 2..Len(results) : results[i].score < CONFIDENCE_THRESHOLD

\* ---------------------------------------------------------------- claim C8
Called(f) == \E i \in 1..Len(calls) : calls[i] = f

\* the last entry of a log is the assistant turn recorded for the query of
\* the last run, or that query's user turn when the run recorded none
LastTurn(log) == log[Len(log)]

\* C8: when the confidence gate answers true for a query, the run calls
\* neither build_prompt nor call_gemini, and the assistant turn recorded for
\* the query, in the conversation log and in the displayed log, is the fixed
\* clarification prompt (a run stopped before it records the turn in a log
\* leaves the query's user turn last there); build_prompt and call_gemini
\* are called only after the gate answered false.
C8_ClarifySkipsGeneration ==
    /\ ask = <<TRUE>> =>
          /\ ~Called("build_prompt")
          /\ ~Called("call_gemini")
          /\ chat_history # <<>>
          /\ display_messages # <<>>
          /\ LastTurn(chat_history).role = "assistant" =>
                LastTurn(chat_history) = assistant_turn("LOW_CONFIDENCE_RESPONSE")
          /\ LastTurn(display_messages).role = "assistant" =>
                LastTurn(display_messages) =
                    assistant_display("LOW_CONFIDENCE_RESPONSE", 0)
          \* app.py:286-290: the displayed log gets the turn first
          /\ LastTurn(chat_history).role = "assistant" =>
                LastTurn(display_messages).role = "assistant"
    /\ (Called("build_prompt") \/ Called("call_gemini")) =>
          (Called("should_ask_clarification") /\ ask = <<FALSE>>)

C8_Witness ==
    /\ ask = <<TRUE>>
    /\ Called("should_ask_clarification")
    /\ Len(chat_history) >= 4
    /\ chat_history[Len(chat_history)] = assistant_turn("LOW_CONFIDENCE_RESPONSE")
    /\ chat_history[Len(chat_history) - 1] = user_turn

\* ----------------------------------------------------------- claims C9-C10
\* the plain history messages of the assembled sequence, and its final message
Window == SubSeq(messages, 1, Len(messages) - 1)
WindowTexts == [i \in 1..Len(Window) |-> Window[i].parts[1]]
FinalMessage == messages[Len(messages)]
Texts(turns) == [i \in 1..Len(turns) |-> turns[i].content]

\* C9: the window handed to the generator holds prior turns only: the text
\* of the current query is in the final augmented message and in no plain
\* history message.
C9_CurrentTurnExcluded ==
    (phase = "done" /\ messages # <<>>) =>
        /\ FinalMessage.parts[1].user_question = query
        /\ \A i \in 1..Len(Window) : Window[i].parts[1] # query

\* C10: the window is the last max_turns entries of the history in order,
\* the whole history when it is shorter; of a history of 14 turns with
\* max_turns = 12 it is the last 12.
C10_Window ==
    (phase = "done" /\ Len(chat_history) = 14) =>
        WindowTexts = Texts(LastN(chat_history, 12))

\* --------------------------------------------------------------- claim C11
\* the entries of the history build_prompt windows: the last WindowSize
WindowStart == Max(0, Len(chat_history) - WindowSize)

\* C11: the assembled sequence is the windowed turns in order, each with its
\* text and its role (assistant as "model", user as "user"), followed by
\* exactly one final message of role user: |window| + 1 messages, none
\* added, dropped or reordered.
C11_Assembled ==
    phase = "done" =>
        /\ Len(messages) = Min(WindowSize, Len(chat_history)) + 1
        /\ \A i \in 1..(Len(messages) - 1) :
              LET turn == chat_history[WindowStart + i]
              IN  /\ messages[i].parts = <<turn.content>>
                  /\ turn.role = "assistant" => messages[i].role = "model"
                  /\ turn.role = "user" => messages[i].role = "user"
        /\ FinalMessage.role = "user"
        /\ FinalMessage.parts[1].user_question = query

C11_Witness ==
    /\ phase = "done"
    /\ Len(chat_history) > WindowSize
    /\ Len(messages) = WindowSize + 1
    /\ \E i \in 1..WindowSize : messages[i].role = "model"
    /\ \E i \in 1..WindowSize : messages[i].role = "user"

\* --------------------------------------------------------------- claim C12
\* C12: the call the chat handler makes to build_prompt, with query, chunks,
\* history, intent and the requested K, returns a message sequence without
\* raising, and the header of its final message states the number of chunks
\* retrieved and K.
C12_CallReturns ==
    Called("build_prompt") =>
        /\ raised = None
        /\ messages # <<>>
        /\ {"chunks_retrieved", "top_k"} \subseteq DOMAIN FinalMessage.parts[1].header

\* --------------------------------------------------------------- claim C13
Context == FinalMessage.parts[1].context

\* C13: every chunk of the ranked list is rendered in the final message
\* exactly once, in the order of the list, numbered 1..n, with its category,
\* title and score.
C13_ChunksRendered ==
    (phase = "done" /\ results # <<>>) =>
        /\ DOMAIN Context = 1..Len(results)
        /\ \A i \in 1..Len(results) :
              /\ Context[i].chunk = i
              /\ Context[i].title = results[i].id
              /\ Context[i].content = results[i].id
              /\ Context[i].relevance = 10 * results[i].score
              /\ Context[i].category = "COURSE" <=> results[i].category = "course"
              /\ Context[i].category = "ASSESSMENT" <=> results[i].category = "assessment"
        /\ FinalMessage.parts[1].header.chunks_retrieved = Len(results)

\* one strong hit and three fillers below the threshold: the gate is passed
\* and the sections are numbered 1..4 in score order
C13_Witness ==
    /\ phase = "done"
    /\ Len(results) = 4
    /\ results[1].score > CONFIDENCE_THRESHOLD
    /\ \A i \in 2..4 : results[i].score < CONFIDENCE_THRESHOLD
    /\ ~should_ask_clarification(results)
    /\ [i \in 1..4 |-> Context[i].chunk] = <<1, 2, 3, 4>>

\* --------------------------------------------------------------- claim C14
\* C14: with an empty chunk list the final message has a header stating zero
\* chunks and the note that no knowledge-base content was found, and the
\* instruction block (synthesize across all chunks) is not emitted.
C14_EmptyContext ==
    (phase = "done" /\ results = <<>>) =>
        /\ FinalMessage.parts[1].header.chunks_retrieved = 0
        /\ Context = "No specific context found in knowledge base."
        /\ "instructions" \notin DOMAIN FinalMessage.parts[1]

\* ---------------------------------------------- specification: get_retriever
\* Each browser session runs app.py in a thread of its own; the module
\* global of retriever.py is shared by all of them.  A KBRetriever is named
\* by the number of the build that made it.
MaxSessions == 3
\* retriever.py:152: the global before any build
NoInstance == 0
Sessions == 1..MaxSessions

InitSingleton ==
    /\ NoRetrieval
    /\ NoPrompt
    /\ NoSession
    /\ NoGemini
    /\ results = <<>>
    /\ ask = <<>>
    /\ phase = "idle"
    /\ calls = <<>>
    /\ raised = None
    /\ retriever_instance = NoInstance
    /\ pc = [s \in Sessions |-> "start"]
    /\ built = [s \in Sessions |-> NoInstance]
    /\ returned = [s \in Sessions |-> NoInstance]
    /\ session_retriever = [s \in Sessions |-> NoInstance]
    /\ builds = 0

singletonRest == <<retrievalVars, promptVars, sessionVars, geminiVars,
                   results, ask, phase>>

\* retriever.py:157: if _retriever_instance is None
TestInstance(s) ==
    /\ pc[s] = "start"
    /\ pc' = [pc EXCEPT ![s] = IF retriever_instance = NoInstance
                               THEN "construct" ELSE "return"]
    /\ UNCHANGED <<retriever_instance, built, returned, session_retriever, builds>>
    /\ UNCHANGED singletonRest

\* retriever.py:158, right-hand side: KBRetriever() loads the model and
\* builds the index (retriever.py:35-65)
Construct(s) ==
    /\ pc[s] = "construct"
    /\ builds' = builds + 1
    /\ built' = [built EXCEPT ![s] = builds + 1]
    /\ pc' = [pc EXCEPT ![s] = "store"]
    /\ UNCHANGED <<retriever_instance, returned, session_retriever>>
    /\ UNCHANGED singletonRest

\* retriever.py:158, the assignment to the global
StoreInstance(s) ==
    /\ pc[s] = "store"
    /\ retriever_instance' = built[s]
    /\ pc' = [pc EXCEPT ![s] = "return"]
    /\ UNCHANGED <<built, returned, session_retriever, builds>>
    /\ UNCHANGED singletonRest

\* retriever.py:159 reads the global again and returns it
ReturnInstance(s) ==
    /\ pc[s] = "return"
    /\ returned' = [returned EXCEPT ![s] = retriever_instance]
    /\ pc' = [pc EXCEPT ![s] = "keep"]
    /\ UNCHANGED <<retriever_instance, built, session_retriever, builds>>
    /\ UNCHANGED singletonRest

\* app.py:78 keeps the returned instance in the session
KeepInstance(s) ==
    /\ pc[s] = "keep"
    /\ session_retriever' = [session_retriever EXCEPT ![s] = returned[s]]
    /\ pc' = [pc EXCEPT ![s] = "done"]
    /\ UNCHANGED <<retriever_instance, built, returned, builds>>
    /\ UNCHANGED singletonRest

NextSingleton ==
    \E s \in Sessions :
        \/ TestInstance(s)
        \/ Construct(s)
        \/ StoreInstance(s)
        \/ ReturnInstance(s)
        \/ KeepInstance(s)

SpecSingleton == InitSingleton /\ [][NextSingleton]_vars

\* --------------------------------------------------------------- claim C15
\* C15: under any interleaving of concurrent first calls to get_retriever
\* the index is built at most once, no second build overwrites the first,
\* and no two sessions hold different retriever instances.
C15_BuiltOnce ==
    /\ builds <= 1
    /\ retriever_instance \in {NoInstance, 1}
    /\ \A s, t \in Sessions :
          (session_retriever[s] # NoInstance /\ session_retriever[t] # NoInstance)
              => session_retriever[s] = session_retriever[t]

\* the part of C15 about the instances the sessions hold
C15_SameInstance ==
    \A s, t \in Sessions :
        (session_retriever[s] # NoInstance /\ session_retriever[t] # NoInstance)
            => session_retriever[s] = session_retriever[t]

\* --------------------------------------------------------------- claim C16
Alternates(turns) ==
    \A i \in 1..(Len(turns) - 1) : turns[i].role # turns[i + 1].role

\* C16: after any sequence of session operations the conversation log and
\* the message sequence handed to the generator alternate strictly between
\* the two roles: no two adjacent entries have the same role.
C16_Alternation ==
    /\ Alternates(chat_history)
    /\ Alternates(messages)

\* --------------------------------------------------------------- claim C17
\* the window has run out: more than RATE_WINDOW seconds since last_reset
WindowExpired == now - last_reset > RATE_WINDOW
\* the query about to be submitted is one check_rate_limit rejects
LimitReached == ~WindowExpired /\ request_count >= RATE_LIMIT

\* the counter a query starts from: zero once the window has run out
CountBase == IF WindowExpired THEN 0 ELSE request_count

\* a run of the handler that got to its first write: the query's user turn
\* is appended to the displayed log (app.py:242); the append of app.py:243
\* and the rate check follow unless the run is stopped
QueryRun == Len(display_messages') > Len(display_messages)

C17_Step ==
    \* the counter is zeroed and last_reset moved only after the window; a
    \* run stopped inside check_rate_limit may have done the first only
    /\ request_count' < request_count =>
            /\ WindowExpired
            /\ request_count' \in {0, 1}
    /\ last_reset' # last_reset =>
            /\ WindowExpired
            /\ last_reset' = now
            /\ request_count' \in {0, 1}
    \* a query is counted at most once
    /\ request_count' \in {request_count, CountBase, CountBase + 1}
    \* a rejected query: nothing beyond the rate check runs, nothing counted
    /\ (QueryRun /\ LimitReached) =>
            /\ calls' \in {<<>>, <<"check_rate_limit">>}
            /\ request_count' = request_count
            /\ last_reset' = last_reset
    \* a query that goes on to the safety check was admitted and counted once
    /\ (QueryRun /\ Called("is_blocked")') =>
            /\ ~LimitReached
            /\ calls'[1] = "check_rate_limit"
            /\ request_count' = CountBase + 1
            /\ last_reset' = (IF WindowExpired THEN now ELSE last_reset)
    \* nothing but a query at the rate check touches the counter
    /\ ~QueryRun => UNCHANGED <<request_count, last_reset>>

\* C17: request_count stays within 0..RATE_LIMIT, so at most RATE_LIMIT
\* queries are admitted between two resets; the counter is reset only when
\* more than RATE_WINDOW seconds have passed since last_reset; a rejected
\* query reaches neither the safety classification, retrieval nor the
\* generator and is not counted.
C17_RateLimit ==
    /\ [](request_count \in 0..RATE_LIMIT)
    /\ [][C17_Step]_vars

\* a query rejected at the limit, in a window opened by a reset
C17_Witness ==
    /\ request_count = RATE_LIMIT
    /\ last_reset > 0
    /\ calls = <<"check_rate_limit">>
    /\ chat_history # <<>>
    /\ LastTurn(chat_history) = user_turn
    /\ LastTurn(display_messages) = user_turn

\* ------------------------------------------------ specification: call_gemini
\* One call of call_gemini: its messages are a prompt build_prompt returns,
\* its retry is 0..MaxRetry (the default is 2); every iteration of the loop
\* either gets a text from the API or an exception.
MaxRetry == 4

\* the texts the API answers with; the second matches a leakage pattern
RawTexts == {"Open Settings to reset your password", "The correct answer is B"}
\* gemini.py:20-26, 70-73: re.search of the leakage patterns
leaks(response_text) == response_text = "The correct answer is B"
\* gemini.py:65-74
validate_response(response_text) ==
    IF leaks(response_text)
    THEN [is_safe |-> FALSE, text |-> "LEAKAGE_BLOCK_RESPONSE"]
    ELSE [is_safe |-> TRUE, text |-> response_text]

\* the exceptions of an attempt, by the words of str(e)
Errors == {<<"429", "Resource", "exhausted">>,
           <<"Quota", "error", "429">>,
           <<"500", "Internal", "error">>}
\* gemini.py:105: "429" in str(e)
has_429(e) == \E i \in 1..Len(e) : e[i] = "429"

\* gemini.py:106: 2 ** attempt
RECURSIVE Pow2(_)
Pow2(n) == IF n = 0 THEN 1 ELSE 2 * Pow2(n - 1)

\* the retry test with the last attempt included
should_retry_at_last(a, r, e) == a <= r /\ has_429(e)
\* the retry test without the look at the message
should_retry_any_error(a, r, e) == a < r
\* gemini.py:105
should_retry(a, r, e) == a < r /\ has_429(e)

GeminiInputs ==
    {build_prompt("query", <<>>, h, None) :
        h \in {<<user_turn>>, <<user_turn, assistant_turn("answer"), user_turn>>}}

InitGemini ==
    /\ NoRetrieval
    /\ NoSession
    /\ NoSingleton
    /\ results = <<>>
    /\ ask = <<>>
    /\ phase = "idle"
    /\ calls = <<>>
    /\ raised = None
    /\ chat_history = <<>>
    /\ query = 0
    /\ messages \in GeminiInputs
    /\ retry \in 0..MaxRetry
    /\ attempt = 0
    /\ slept = <<>>
    /\ tries = 0
    /\ caught = <<>>
    /\ call_state = "running"
    /\ value = [kind |-> "none"]

geminiRest == <<retrievalVars, promptVars, sessionVars, singletonVars,
                results, ask, phase>>

\* gemini.py:93-102: the attempt gets a response; its validated text is
\* returned with the latency
AttemptReturns ==
    /\ call_state = "running"
    /\ \E raw_text \in RawTexts :
          value' = [kind |-> "result",
                    final_text |-> validate_response(raw_text).text,
                    latency |-> "latency"]
    /\ tries' = tries + 1
    /\ call_state' = "returned"
    /\ UNCHANGED <<retry, attempt, slept, caught>>
    /\ UNCHANGED geminiRest

\* gemini.py:104-108: the attempt raises; the loop sleeps and goes on to the
\* next value of range(retry + 1), or the exception is raised again.  A
\* loop that runs out of values ends the function, which returns None.
AttemptRaises ==
    /\ call_state = "running"
    /\ tries' = tries + 1
    /\ \E e \in Errors :
          /\ caught' = Append(caught, e)
          /\ IF should_retry(attempt, retry, e)
             THEN /\ slept' = Append(slept, Pow2(attempt))
                  /\ IF attempt + 1 <= retry
                     THEN /\ attempt' = attempt + 1
                          /\ UNCHANGED <<call_state, value>>
                     ELSE /\ call_state' = "returned"
                          /\ value' = [kind |-> "none"]
                          /\ UNCHANGED attempt
             ELSE /\ call_state' = "raised"
                  /\ value' = [kind |-> "error", e |-> e]
                  /\ UNCHANGED <<attempt, slept>>
    /\ UNCHANGED retry
    /\ UNCHANGED geminiRest

NextGemini == AttemptReturns \/ AttemptRaises

SpecGemini == InitGemini /\ [][NextGemini]_vars

\* Every attempt ends: the API call returns or raises, and time.sleep
\* returns, so a running call always takes its next step.
SpecGeminiFair == SpecGemini /\ WF_vars(NextGemini)

\* --------------------------------------------------------------- claim C18
Ended == call_state \in {"returned", "raised"}

\* every exception caught before the last one named 429
Earlier429(n) == \A i \in 1..n : has_429(caught[i])

C18_Inv ==
    \* at most retry + 1 attempts, one sleep of 2^attempt before each retry
    /\ tries <= retry + 1
    /\ slept = [i \in 1..attempt |-> Pow2(i - 1)]
    \* the call goes on only while every failure so far named 429
    /\ call_state = "running" =>
          /\ tries = attempt /\ attempt <= retry
          /\ Len(caught) = tries
          /\ Earlier429(Len(caught))
    \* it returns the result of the first attempt that succeeds
    /\ call_state = "returned" =>
          /\ value.kind = "result"
          /\ tries = attempt + 1
          /\ Len(caught) = attempt
          /\ Earlier429(Len(caught))
    \* it raises the exception of the attempt that just failed: the first one
    \* without 429, or one with 429 at the last attempt
    /\ call_state = "raised" =>
          /\ value.kind = "error"
          /\ tries = attempt + 1
          /\ Len(caught) = tries
          /\ value.e = caught[Len(caught)]
          /\ Earlier429(Len(caught) - 1)
          /\ ~has_429(value.e) \/ attempt = retry

C18_Step ==
    \* the call goes on to another attempt only after a failure with 429
    \* and with attempts left, after a sleep of 2^attempt seconds
    /\ (call_state = "running" /\ call_state' = "running") =>
          /\ attempt < retry
          /\ attempt' = attempt + 1
          /\ slept' = Append(slept, Pow2(attempt))
          /\ Len(caught') = Len(caught) + 1
          /\ has_429(caught'[Len(caught')])
    \* a failure without 429, or at the last attempt, is raised at once
    /\ (call_state = "running" /\ Len(caught') > Len(caught)
            /\ (~has_429(caught'[Len(caught')]) \/ attempt = retry)) =>
          /\ call_state' = "raised"
          /\ value' = [kind |-> "error", e |-> caught'[Len(caught')]]
          /\ slept' = slept
    \* once ended, nothing more happens
    /\ Ended => UNCHANGED <<call_state, value, tries, caught, slept>>

\* C18: call_gemini makes at most retry + 1 attempts and always ends: it
\* returns at the first attempt that succeeds, goes on to another attempt
\* only after a failure whose message contains 429 while attempts remain,
\* sleeping 2^attempt seconds, raises at once on any other failure or on a
\* 429 at the last attempt, and never returns without a result.
C18_Terminates ==
    /\ []C18_Inv
    /\ [][C18_Step]_vars
    /\ <>Ended

\* the default call: two failures with 429, sleeps of 1 and 2 seconds, and
\* a third failure with 429 raised to the caller
C18_Witness ==
    /\ retry = 2
    /\ tries = 3
    /\ slept = <<1, 2>>
    /\ Len(caught) = 3
    /\ call_state = "raised"
    /\ has_429(value.e)

====
